---- MODULE Spec2Model ----
(***************************************************************************)
(* Model of scraper.py: the /scrape handler (start_scraping), the crawl    *)
(* loop Scraper.scrape_catalogue with its retry loop and its price cache   *)
(* (a Redis client shared by the whole process), and the storage and       *)
(* notification strategies the handler calls once the crawl returns.       *)
(*                                                                         *)
(* Each request is served by one worker thread w.  A step of a worker is   *)
(* one statement group of the code that touches shared state (the cache,   *)
(* the clock, the network) at most once.                                   *)
(***************************************************************************)
EXTENDS Integers, Sequences, FiniteSets, TLC

VARIABLES
    cache,          \* the Redis store: key -> [value, expires]
    now,            \* wall clock, in seconds
    pending,        \* requests not yet picked up, in arrival order
    workers,        \* the worker threads that serve requests
    site,           \* the lists of products the page source may answer with
    statuses,       \* the HTTP statuses the page source may answer with
    document,       \* the markup of one page: its titles, prices and images
    parsed,         \* what scrape_page made of `document`
    pc,             \* per worker: the statement it is at
    settings,       \* per worker: Scraper.settings
    scraped_data,   \* per worker: Scraper.scraped_data
    page,           \* per worker: local `page` of scrape_catalogue
    retries,        \* per worker: local `retries`
    products,       \* per worker: local `products`
    idx,            \* per worker: position of the for loop in `products`
    attempts,       \* per worker: the scrape_page calls of the current page
    requested,      \* per worker: page numbers requested by this crawl
    origin,         \* per worker: <<page, position>> of every appended record
    sleeps,         \* per worker: time.sleep calls made for the current page
    saved,          \* per worker: arguments of storage_strategy.save calls
    notified,       \* per worker: messages given to notify
    response        \* per worker: what the HTTP caller receives

crawlVars == <<pc, settings, scraped_data, page, retries, products, idx,
               attempts, requested, origin, sleeps>>
sinkVars == <<saved, notified, response>>
pageVars == <<document, parsed>>
envVars == <<pending, workers, site, statuses, pageVars>>
vars == <<cache, now, envVars, crawlVars, sinkVars>>

----------------------------------------------------------------------------
(* Program constants *)

CACHE_EXPIRY == 3600

PageLimit == 10

RetryCount == 3

BackoffSeconds == 2

(* Bounds of the environment *)

MaxTicks == 1

MaxFacets == 6

Worker == {1, 2}

----------------------------------------------------------------------------
(* Values *)

ImageOf(n) == <<"img/", n>>

\* ScrapedProduct(name=..., price=..., url=...)
ScrapedProduct(n, p) == [name |-> n, price |-> p, url |-> ImageOf(n)]

\* Optional[int]: None is {}, a value v is {v}
None == {}

Some(v) == {v}

ScrapeSettings(m) == [max_pages |-> m, proxy |-> None]

\* the ScrapedProduct built at lines 91-95
NewProduct(title_text, price_text, image_url) ==
    [name |-> title_text, price |-> price_text, url |-> image_url]

\* the k-th element matched by a selector: its text, with or without
\* surrounding white space, or its src attribute
TitleAt(k) == [text |-> <<"title", k>>, padded |-> k % 2 = 1]

PriceAt(k) == [text |-> <<"price", k>>, padded |-> k % 2 = 0]

ImageAt(k) == [src |-> <<"img/", k>>]

\* a page with t titles, p prices and i images, in document order
Document(t, p, i) ==
    [titles |-> [k \in 1..t |-> TitleAt(k)],
     prices |-> [k \in 1..p |-> PriceAt(k)],
     images |-> [k \in 1..i |-> ImageAt(k)]]

Documents == {Document(t, p, i) : t \in 0..MaxFacets, p \in 0..MaxFacets, i \in 0..MaxFacets}

NotParsed == [done |-> FALSE, products |-> <<>>]

\* tag.get_text(strip=True): the text without the white space around it
GetTextStrip(tag) == tag.text

Shortest(a, b, c) ==
    IF Len(a) <= Len(b) /\ Len(a) <= Len(c) THEN Len(a)
    ELSE IF Len(b) <= Len(c) THEN Len(b) ELSE Len(c)

Longest(a, b, c) ==
    IF Len(a) >= Len(b) /\ Len(a) >= Len(c) THEN Len(a)
    ELSE IF Len(b) >= Len(c) THEN Len(b) ELSE Len(c)

\* itertools.zip_longest in place of zip: missing facets are filled in
Zip3Longest(a, b, c) ==
    [n \in 1..Longest(a, b, c) |->
        << IF n <= Len(a) THEN a[n] ELSE [text |-> "", padded |-> FALSE],
           IF n <= Len(b) THEN b[n] ELSE [text |-> "", padded |-> FALSE],
           IF n <= Len(c) THEN c[n] ELSE [src |-> ""] >>]

\* zip(titles, prices, images)
Zip3(a, b, c) == [n \in 1..Shortest(a, b, c) |-> <<a[n], b[n], c[n]>>]

\* lines 69-99: the products scrape_page returns for a page
ScrapePageProducts(doc) ==
    LET zipped == Zip3(doc.titles, doc.prices, doc.images)
    IN  [n \in 1..Len(zipped) |->
            NewProduct(GetTextStrip(zipped[n][1]), GetTextStrip(zipped[n][2]),
                       zipped[n][3].src)]

\* The lists of products one scrape_page call may return
Catalogue ==
    { <<>>,
      <<ScrapedProduct("X", "10"), ScrapedProduct("Y", "10")>>,
      <<ScrapedProduct("X", "10"), ScrapedProduct("Z", "10")>>,
      <<ScrapedProduct("X", "12")>>,
      <<ScrapedProduct("Y", "12"), ScrapedProduct("X", "12"), ScrapedProduct("Y", "12")>> }

\* A page source whose pages all hold the same two products, or nothing
Listing == { <<>>, <<ScrapedProduct("X", "10"), ScrapedProduct("Y", "10")>> }

\* A page source with one product, at one of two prices, or nothing
Offers == { <<>>, <<ScrapedProduct("X", "10")>>, <<ScrapedProduct("X", "12")>> }

\* max_pages of the requests that crawl the catalogue
ShortCrawls == {Some(1), Some(2), Some(3), Some(4)}

\* max_pages of the requests that crawl the listing
LongCrawls == {None, Some(1), Some(2), Some(8), Some(9), Some(10), Some(12)}

LiveCrawls == {None, Some(-1), Some(0), Some(3)}

\* the integers around zero that ScrapeSettings takes for max_pages
EdgeCrawls == {Some(-1), Some(0), Some(1), Some(2)}

\* f"{base_url}?page={page}"
PageUrl(p) == <<"base_url", "?page=", p>>

\* f"product:{product.name}"
CacheKey(product) == <<"product:", product.name>>

\* Python truthiness of settings.max_pages: None and 0 are false
Truthy(opt) == \E v \in opt : v # 0

\* the max_pages test off by one: `page >= self.settings.max_pages`
OverMaxPagesOrEqual(s, p) == Truthy(s.max_pages) /\ \E v \in s.max_pages : p >= v

\* `self.settings.max_pages and page > self.settings.max_pages`
OverMaxPages(s, p) == Truthy(s.max_pages) /\ \E v \in s.max_pages : p > v

\* the loop without its page limit: `while True`
UnderPageLimitAlways(p) == TRUE

\* `while page<10`
UnderPageLimit(p) == p < PageLimit

\* the retry loop without its break: a non-empty page is fetched again
StopsRetryingNever(result) == FALSE

\* lines 66-67: page.content is parsed whatever the status of the response
RaisesForStatus(status) == FALSE

\* `if products: break` of the retry loop
StopsRetrying(result) == result # <<>>

\* the loop test off by one: `while retries >= 0`
RetriesLeftOrZero(r) == r >= 0

\* `while retries > 0`
RetriesLeft(r) == r > 0

\* the crawl without its break on an empty page
EmptyPageStopsNever(result) == FALSE

\* `if not products: break` after the for loop
EmptyPageStops(result) == result = <<>>

\* a page counter that skips a page: `page += 2`
NextPageSkips(p) == p + 2

\* `page += 1` left out
NextPageStays(p) == p

\* `page += 1`
NextPage(p) == p + 1

\* a get that still answers with an expired entry
CacheGetStale(c, key, t) ==
    IF key \in DOMAIN c THEN Some(c[key].value) ELSE None

\* cache.get(key): the value of a live entry, None once it is absent or expired
CacheGet(c, key, t) ==
    IF key \in DOMAIN c /\ t < c[key].expires THEN Some(c[key].value) ELSE None

\* a set that keeps the expiry of an entry it overwrites (`keepttl=True`)
CacheSetKeepTTL(c, key, value, t) ==
    [k \in DOMAIN c \cup {key} |->
        IF k = key
        THEN [value |-> value,
              expires |-> IF key \in DOMAIN c THEN c[key].expires ELSE t + CACHE_EXPIRY]
        ELSE c[k]]

\* a set that leaves a live entry alone (`nx=True`): the first writer wins
CacheSetIfAbsent(c, key, value, t) ==
    IF key \in DOMAIN c /\ t < c[key].expires
    THEN c
    ELSE [k \in DOMAIN c \cup {key} |->
            IF k = key THEN [value |-> value, expires |-> t + CACHE_EXPIRY] ELSE c[k]]

\* cache.set(key, value, ex=CACHE_EXPIRY)
CacheSet(c, key, value, t) ==
    [k \in DOMAIN c \cup {key} |->
        IF k = key THEN [value |-> value, expires |-> t + CACHE_EXPIRY] ELSE c[k]]

\* the test without its second half: `cached_price is None`
ShouldAcceptUnseen(cached_price, product) == cached_price = None

\* `cached_price is None or cached_price != product.price`
ShouldAccept(cached_price, product) ==
    cached_price = None \/ cached_price # Some(product.price)

\* a set for every record, accepted or not (line 140 outside the `if`)
SetsCacheAlways(accepted) == TRUE

\* line 140 is inside the `if` of line 138: only an accepted record is set
SetsCache(accepted) == accepted

\* self.scraped_data.append(product.dict())
AppendProduct(data, product) == Append(data, product)

\* the data argument of storage_strategy.save at line 154
SaveArgument(data) == [kind |-> "str", text |-> "scraped_data.json", items |-> <<>>]

\* the body returned at line 157
SuccessBody(data) ==
    [status |-> 200, message |-> "Scraping completed successfully.",
     products_scraped |-> Len(data)]

\* what the framework answers when the handler raises
ErrorBody == [status |-> 500, message |-> "Internal Server Error"]

NoResponse == [status |-> 0, message |-> ""]

----------------------------------------------------------------------------
(* Initial state: the process is up, the cache is empty, one request waits *)

InitWorkers(ws, reqs, lists) ==
    /\ cache = << >>
    /\ now = 0
    /\ pending \in reqs
    /\ workers = ws
    /\ site = lists
    /\ pc = [w \in Worker |-> "idle"]
    /\ settings = [w \in Worker |-> ScrapeSettings(None)]
    /\ scraped_data = [w \in Worker |-> <<>>]
    /\ page = [w \in Worker |-> 1]
    /\ retries = [w \in Worker |-> 0]
    /\ products = [w \in Worker |-> <<>>]
    /\ idx = [w \in Worker |-> 1]
    /\ attempts = [w \in Worker |-> <<>>]
    /\ requested = [w \in Worker |-> {}]
    /\ origin = [w \in Worker |-> <<>>]
    /\ sleeps = [w \in Worker |-> 0]
    /\ saved = [w \in Worker |-> <<>>]
    /\ notified = [w \in Worker |-> <<>>]
    /\ response = [w \in Worker |-> NoResponse]

\* the page source: the statuses it answers with, the markup of its page
InitSource(sts, docs) ==
    /\ statuses = sts
    /\ document \in docs
    /\ parsed = NotParsed

Init ==
    /\ InitWorkers({1}, {<<ScrapeSettings(m)>> : m \in ShortCrawls}, Catalogue)
    /\ InitSource({200}, {Document(0, 0, 0)})

InitPaging ==
    /\ InitWorkers({1}, {<<ScrapeSettings(m)>> : m \in LongCrawls}, Listing)
    /\ InitSource({200}, {Document(0, 0, 0)})

\* two requests served at the same time by two worker threads
InitRace ==
    /\ InitWorkers({1, 2}, {<<ScrapeSettings(Some(1)), ScrapeSettings(Some(1))>>}, Offers)
    /\ InitSource({200}, {Document(0, 0, 0)})

\* two requests, one after the other, served by the same process
InitSeq ==
    /\ InitWorkers({1}, {<<ScrapeSettings(Some(1)), ScrapeSettings(Some(1))>>}, Offers)
    /\ InitSource({200}, {Document(0, 0, 0)})

\* requests whose max_pages is zero, negative or small
InitLimits ==
    /\ InitWorkers({1}, {<<ScrapeSettings(m)>> : m \in EdgeCrawls}, Listing)
    /\ InitSource({200}, {Document(0, 0, 0)})

\* crawls without limit, with a limit and with limits that are no limit
InitLive ==
    /\ InitWorkers({1}, {<<ScrapeSettings(m)>> : m \in LiveCrawls}, Listing)
    /\ InitSource({200}, {Document(0, 0, 0)})

\* a page source that also answers with an error status
InitHttp ==
    /\ InitWorkers({1}, {<<ScrapeSettings(m)>> : m \in {Some(1), Some(2)}}, Offers)
    /\ InitSource({200, 500}, {Document(0, 0, 0)})

\* scrape_page alone, on every page of up to MaxFacets titles, prices, images
InitParse ==
    /\ InitWorkers({}, {<<>>}, {})
    /\ InitSource({200}, Documents)

----------------------------------------------------------------------------
(* Actions *)

\* an unhandled exception leaves scrape_catalogue and start_scraping
Raise(w) ==
    /\ pc' = [pc EXCEPT ![w] = "failed"]
    /\ response' = [response EXCEPT ![w] = ErrorBody]

\* lines 150-153 and 116-117: a new Scraper, then scrape_catalogue sets page = 1
StartScraping(w) ==
    /\ pc[w] \in {"idle", "returned", "failed"}
    /\ pending # <<>>
    /\ pending' = Tail(pending)
    /\ settings' = [settings EXCEPT ![w] = Head(pending)]
    /\ scraped_data' = [scraped_data EXCEPT ![w] = <<>>]
    /\ page' = [page EXCEPT ![w] = 1]
    /\ pc' = [pc EXCEPT ![w] = "while"]
    /\ retries' = [retries EXCEPT ![w] = 0]
    /\ products' = [products EXCEPT ![w] = <<>>]
    /\ idx' = [idx EXCEPT ![w] = 1]
    /\ attempts' = [attempts EXCEPT ![w] = <<>>]
    /\ requested' = [requested EXCEPT ![w] = {}]
    /\ origin' = [origin EXCEPT ![w] = <<>>]
    /\ sleeps' = [sleeps EXCEPT ![w] = 0]
    /\ saved' = [saved EXCEPT ![w] = <<>>]
    /\ notified' = [notified EXCEPT ![w] = <<>>]
    /\ response' = [response EXCEPT ![w] = NoResponse]
    /\ UNCHANGED <<cache, now, workers, site, statuses, pageVars>>

\* lines 118-126: the loop test, the max_pages test, `retries = 3`
WhileHead(w) ==
    /\ pc[w] = "while"
    /\ IF UnderPageLimit(page[w]) /\ ~OverMaxPages(settings[w], page[w])
       THEN /\ retries' = [retries EXCEPT ![w] = RetryCount]
            /\ attempts' = [attempts EXCEPT ![w] = <<>>]
            /\ sleeps' = [sleeps EXCEPT ![w] = 0]
            /\ pc' = [pc EXCEPT ![w] = "fetch"]
       ELSE /\ pc' = [pc EXCEPT ![w] = "save"]
            /\ UNCHANGED <<retries, attempts, sleeps>>
    /\ UNCHANGED <<cache, now, envVars, settings, scraped_data, page,
                   products, idx, requested, origin, sinkVars>>

\* lines 127-131 with a scrape_page call that returns a list
ScrapePage(w) ==
    /\ pc[w] = "fetch"
    /\ \E status \in statuses, result \in site :
        IF RaisesForStatus(status)
        THEN /\ attempts' = [attempts EXCEPT ![w] =
                    Append(@, [url |-> PageUrl(page[w]), ok |-> FALSE,
                               status |-> status, result |-> <<>>])]
             /\ Raise(w)
             /\ UNCHANGED <<products, retries, idx, saved, notified>>
        ELSE /\ products' = [products EXCEPT ![w] = result]
             /\ attempts' = [attempts EXCEPT ![w] =
                    Append(@, [url |-> PageUrl(page[w]), ok |-> TRUE,
                               status |-> status, result |-> result])]
             /\ IF StopsRetrying(result)
                THEN /\ pc' = [pc EXCEPT ![w] = "for"]
                     /\ UNCHANGED retries
                ELSE /\ pc' = [pc EXCEPT ![w] = "sleep"]
                     /\ retries' = [retries EXCEPT ![w] = @ - 1]
             /\ idx' = [idx EXCEPT ![w] = 1]
             /\ UNCHANGED sinkVars
    /\ requested' = [requested EXCEPT ![w] = @ \cup {page[w]}]
    /\ UNCHANGED <<cache, now, envVars, settings, scraped_data, page,
                   origin, sleeps>>

\* scrape_page with the exception caught and counted as an empty page
ScrapePageRaisesCaught(w) ==
    /\ pc[w] = "fetch"
    /\ attempts' = [attempts EXCEPT ![w] =
            Append(@, [url |-> PageUrl(page[w]), ok |-> FALSE, status |-> 0,
                       result |-> <<>>])]
    /\ requested' = [requested EXCEPT ![w] = @ \cup {page[w]}]
    /\ products' = [products EXCEPT ![w] = <<>>]
    /\ retries' = [retries EXCEPT ![w] = @ - 1]
    /\ pc' = [pc EXCEPT ![w] = "sleep"]
    /\ UNCHANGED <<cache, now, envVars, settings, scraped_data, page,
                   idx, origin, sleeps, sinkVars>>

\* lines 128 and 66: requests.get raises, nothing catches it
ScrapePageRaises(w) ==
    /\ pc[w] = "fetch"
    /\ attempts' = [attempts EXCEPT ![w] =
            Append(@, [url |-> PageUrl(page[w]), ok |-> FALSE, status |-> 0,
                       result |-> <<>>])]
    /\ requested' = [requested EXCEPT ![w] = @ \cup {page[w]}]
    /\ Raise(w)
    /\ UNCHANGED <<cache, now, envVars, settings, scraped_data, page,
                   retries, products, idx, origin, sleeps, saved, notified>>

\* line 132 and the loop test of line 127
Sleep(w) ==
    /\ pc[w] = "sleep"
    /\ now' = now + BackoffSeconds
    /\ sleeps' = [sleeps EXCEPT ![w] = @ + 1]
    /\ pc' = [pc EXCEPT ![w] = IF RetriesLeft(retries[w]) THEN "fetch" ELSE "for"]
    /\ UNCHANGED <<cache, envVars, settings, scraped_data, page, retries,
                   products, idx, attempts, requested, origin, sinkVars>>

\* lines 134-139: cache.get, the comparison, the append
CheckProduct(w) ==
    /\ pc[w] = "for"
    /\ idx[w] <= Len(products[w])
    /\ LET product == products[w][idx[w]]
           cached_price == CacheGet(cache, CacheKey(product), now)
           accepted == ShouldAccept(cached_price, product)
       IN /\ IF accepted
             THEN /\ scraped_data' = [scraped_data EXCEPT ![w] = AppendProduct(@, product)]
                  /\ origin' = [origin EXCEPT ![w] = Append(@, <<page[w], idx[w]>>)]
             ELSE UNCHANGED <<scraped_data, origin>>
          /\ IF SetsCache(accepted)
             THEN /\ pc' = [pc EXCEPT ![w] = "set"]
                  /\ UNCHANGED idx
             ELSE /\ idx' = [idx EXCEPT ![w] = @ + 1]
                  /\ UNCHANGED pc
    /\ UNCHANGED <<cache, now, envVars, settings, page, retries, products,
                   attempts, requested, sleeps, sinkVars>>

\* line 140: cache.set, inside the `if`
SetProduct(w) ==
    /\ pc[w] = "set"
    /\ LET product == products[w][idx[w]]
       IN cache' = CacheSet(cache, CacheKey(product), product.price, now)
    /\ idx' = [idx EXCEPT ![w] = @ + 1]
    /\ pc' = [pc EXCEPT ![w] = "for"]
    /\ UNCHANGED <<now, envVars, settings, scraped_data, page, retries,
                   products, attempts, requested, origin, sleeps, sinkVars>>

\* lines 136 and 140: the cache client raises (the store is unreachable)
CacheRaises(w) ==
    /\ \/ pc[w] = "for" /\ idx[w] <= Len(products[w])
       \/ pc[w] = "set"
    /\ Raise(w)
    /\ UNCHANGED <<cache, now, envVars, settings, scraped_data, page,
                   retries, products, idx, attempts, requested, origin, sleeps,
                   saved, notified>>

\* lines 142-145: the for loop is over
EndOfPage(w) ==
    /\ pc[w] = "for"
    /\ idx[w] > Len(products[w])
    /\ IF EmptyPageStops(products[w])
       THEN /\ pc' = [pc EXCEPT ![w] = "save"]
            /\ UNCHANGED page
       ELSE /\ page' = [page EXCEPT ![w] = NextPage(@)]
            /\ pc' = [pc EXCEPT ![w] = "while"]
    /\ UNCHANGED <<cache, now, envVars, settings, scraped_data, retries,
                   products, idx, attempts, requested, origin, sleeps, sinkVars>>

\* line 154 and FileStorageStrategy.save
Save(w) ==
    /\ pc[w] = "save"
    /\ saved' = [saved EXCEPT ![w] =
            Append(@, [data |-> SaveArgument(scraped_data[w]), filepath |-> "./data.json"])]
    /\ pc' = [pc EXCEPT ![w] = "notify"]
    /\ UNCHANGED <<cache, now, envVars, settings, scraped_data, page,
                   retries, products, idx, attempts, requested, origin, sleeps,
                   notified, response>>

\* line 155 and ConsoleNotificationStrategy.notify
Notify(w) ==
    /\ pc[w] = "notify"
    /\ notified' = [notified EXCEPT ![w] = Append(@, Len(scraped_data[w]))]
    /\ pc' = [pc EXCEPT ![w] = "return"]
    /\ UNCHANGED <<cache, now, envVars, settings, scraped_data, page,
                   retries, products, idx, attempts, requested, origin, sleeps,
                   saved, response>>

\* line 157
Return(w) ==
    /\ pc[w] = "return"
    /\ response' = [response EXCEPT ![w] = SuccessBody(scraped_data[w])]
    /\ pc' = [pc EXCEPT ![w] = "returned"]
    /\ UNCHANGED <<cache, now, envVars, settings, scraped_data, page,
                   retries, products, idx, attempts, requested, origin, sleeps,
                   saved, notified>>

\* a scrape_page call is slow: cache entries written before it expire meanwhile
Tick ==
    /\ now \div CACHE_EXPIRY < MaxTicks
    /\ \E w \in workers : pc[w] = "fetch"
    /\ now' = now + CACHE_EXPIRY
    /\ UNCHANGED <<cache, envVars, crawlVars, sinkVars>>

Next ==
    \/ \E w \in workers : StartScraping(w)
    \/ \E w \in workers : WhileHead(w)
    \/ \E w \in workers : ScrapePage(w)
    \/ \E w \in workers : ScrapePageRaises(w)
    \/ \E w \in workers : Sleep(w)
    \/ \E w \in workers : CheckProduct(w)
    \/ \E w \in workers : SetProduct(w)
    \/ \E w \in workers : CacheRaises(w)
    \/ \E w \in workers : EndOfPage(w)
    \/ \E w \in workers : Save(w)
    \/ \E w \in workers : Notify(w)
    \/ \E w \in workers : Return(w)
    \/ Tick

\* lines 65-99: scrape_page parses the page it fetched
ParseDocument ==
    /\ ~parsed.done
    /\ parsed' = [done |-> TRUE, products |-> ScrapePageProducts(document)]
    /\ UNCHANGED <<cache, now, pending, workers, site, statuses, document,
                   crawlVars, sinkVars>>

NextParse == ParseDocument

Spec == Init /\ [][Next]_vars

SpecParse == InitParse /\ [][NextParse]_vars

SpecRace == InitRace /\ [][Next]_vars

SpecSeq == InitSeq /\ [][Next]_vars

SpecHttp == InitHttp /\ [][Next]_vars

SpecLimits == InitLimits /\ [][Next]_vars

\* the statements of start_scraping that return: a thread that has a
\* statement to run runs it, and a call that does not raise returns
Step(w) ==
    \/ StartScraping(w)
    \/ WhileHead(w)
    \/ ScrapePage(w)
    \/ Sleep(w)
    \/ CheckProduct(w)
    \/ SetProduct(w)
    \/ EndOfPage(w)
    \/ Save(w)
    \/ Notify(w)
    \/ Return(w)

Fairness == \A w \in Worker : WF_vars(Step(w))

SpecLive == InitLive /\ [][Next]_vars /\ Fairness

SpecPaging == InitPaging /\ [][Next]_vars

----------------------------------------------------------------------------
(* Properties *)

Range(f) == {f[i] : i \in DOMAIN f}

Last(q) == q[Len(q)]

\* worker w finishes the cache check of products[w][idx[w]] in this step
Checks(w) ==
    /\ pc[w] = "for"
    /\ idx[w] <= Len(products[w])
    /\ pc'[w] \in {"for", "set"}
    /\ (pc'[w] = "set" \/ idx'[w] = idx[w] + 1)

\* the cache holds a live entry for the product, with the product's price
LiveSamePrice(product) ==
    LET key == <<"product:", product.name>>
    IN  /\ key \in DOMAIN cache
        /\ now < cache[key].expires
        /\ cache[key].value = product.price

\* C1: a record is appended to the crawl result if and only if, when it is
\* checked, the cache has no live entry for "product:" + name or the entry's
\* value differs from the record's price.
C1_AcceptedIffNewOrChanged ==
    [][\A w \in Worker :
        Checks(w) =>
            IF LiveSamePrice(products[w][idx[w]])
            THEN scraped_data'[w] = scraped_data[w]
            ELSE scraped_data'[w] = Append(scraped_data[w], products[w][idx[w]])]_vars

\* two first sightings accepted on page 1, both resighted and rejected on
\* page 2, a changed price accepted on page 3
C1_Witness ==
    \E w \in workers :
        /\ origin[w] = << <<1, 1>>, <<1, 2>>, <<3, 1>> >>
        /\ scraped_data[w] = << ScrapedProduct("X", "10"), ScrapedProduct("Y", "10"),
                                ScrapedProduct("X", "12") >>

\* worker w is done with products[w][idx[w]] in this step
Processed(w) ==
    /\ pc[w] \in {"for", "set"}
    /\ idx[w] <= Len(products[w])
    /\ pc'[w] = "for"
    /\ idx'[w] = idx[w] + 1

FreshEntry(product) == [value |-> product.price, expires |-> now + CACHE_EXPIRY]

LoopEnded(w) == pc[w] \in {"for", "set"}

AllEmptyBefore(w, k) ==
    \A j \in 1..(k - 1) : attempts[w][j].ok /\ attempts[w][j].result = <<>>

\* C3: the retry loop stops at the first non-empty attempt k (1 <= k <= 3):
\* exactly k fetches of the page's URL are made and the page's result is the
\* list of attempt k.
C3_StopsAtFirstNonEmpty ==
    /\ [](\A w \in Worker :
            LoopEnded(w) /\ products[w] # <<>> =>
                LET k == Len(attempts[w])
                IN  /\ k \in 1..3
                    /\ AllEmptyBefore(w, k)
                    /\ attempts[w][k].ok
                    /\ attempts[w][k].result = products[w]
                    /\ \A j \in 1..k : attempts[w][j].url = PageUrl(page[w]))
    /\ [][\A w \in Worker :
            LoopEnded(w) => attempts'[w] = attempts[w] /\ products'[w] = products[w]]_vars

\* [] then [] then a list: three fetches, the result is the third list
C3_Witness ==
    \E w \in workers :
        /\ LoopEnded(w)
        /\ Len(attempts[w]) = 3
        /\ attempts[w][1].result = <<>>
        /\ attempts[w][2].result = <<>>
        /\ attempts[w][3].result = <<ScrapedProduct("X", "12")>>
        /\ products[w] = <<ScrapedProduct("X", "12")>>

\* C4: a page whose fetches all return an empty list is fetched exactly 3
\* times, its result is the empty list, and no error is raised.
C4_ThreeFetchesWhenAllEmpty ==
    /\ [](\A w \in Worker :
            /\ Len(attempts[w]) <= 3
            /\ LoopEnded(w) /\ products[w] = <<>> =>
                /\ Len(attempts[w]) = 3
                /\ AllEmptyBefore(w, 4)
                /\ \A j \in 1..3 : attempts[w][j].url = PageUrl(page[w])
                /\ response[w] = NoResponse)
    /\ [][\A w \in Worker :
            LoopEnded(w) /\ products[w] = <<>> =>
                /\ attempts'[w] = attempts[w]
                /\ pc'[w] \in {"for", "save"}
                /\ response'[w] = NoResponse]_vars
    /\ [][\A w \in Worker :
            (pc[w] \in {"fetch", "sleep"} /\ LoopEnded(w)') =>
                (products'[w] = <<>> <=>
                    /\ Len(attempts'[w]) = 3
                    /\ \A j \in 1..3 : attempts'[w][j].result = <<>>)]_vars

\* three empty fetches of page 2, the crawl goes on to save
C4_Witness ==
    \E w \in workers :
        /\ pc[w] = "save"
        /\ page[w] = 2
        /\ products[w] = <<>>
        /\ Len(attempts[w]) = 3
        /\ \A j \in 1..3 : attempts[w][j].ok /\ attempts[w][j].result = <<>>

\* scrape_catalogue has returned to start_scraping
Finished(w) == pc[w] \in {"save", "notify", "return", "returned"}

\* C5: with max_pages a positive m no page above m is requested, and when
\* pages 1..m all return data (m below 10) exactly pages 1..m are visited.
C5_MaxPagesRespected ==
    \A w \in Worker :
        \A m \in settings[w].max_pages :
            m > 0 =>
                /\ \A p \in requested[w] : p <= m
                /\ \A j \in 1..Len(attempts[w]) : attempts[w][j].url[3] <= m
                /\ (Finished(w) /\ products[w] # <<>> /\ m < 10) =>
                        requested[w] = 1..m

\* max_pages = 2 on a source whose every page can return data
C5_Witness ==
    \E w \in workers :
        /\ settings[w].max_pages = {2}
        /\ pc[w] = "returned"
        /\ products[w] # <<>>
        /\ requested[w] = {1, 2}

\* C6: whatever max_pages is and whatever the pages return, no page numbered
\* 11 or higher is requested.
C6_NeverPageEleven ==
    \A w \in Worker :
        /\ \A p \in requested[w] : p < 11
        /\ \A j \in 1..Len(attempts[w]) : attempts[w][j].url[3] < 11

\* max_pages unset, every page returned data, the crawl has stopped
C6_Witness ==
    \E w \in workers :
        /\ settings[w].max_pages = {}
        /\ pc[w] = "returned"
        /\ products[w] # <<>>
        /\ requested[w] # {}

\* a new request is picked up by worker w in this step
Restarts(w) == pc[w] \in {"idle", "returned", "failed"} /\ pc'[w] = "while"

\* the retry loop of the current page has ended with an empty result
EndedEmpty(w) ==
    /\ pc[w] = "for" \/ Finished(w)
    /\ attempts[w] # <<>>
    /\ products[w] = <<>>

Precedes(a, b) == a[1] < b[1] \/ (a[1] = b[1] /\ a[2] < b[2])

\* C7: the crawl stops at the first page whose retry loop ends empty: no
\* higher page is requested afterwards, and the records accepted before stay
\* in the result, unchanged, in page order then document order.
C7_StopsAtFirstEmptyPage ==
    /\ [](\A w \in Worker :
            /\ EndedEmpty(w) => requested[w] = 1..page[w]
            /\ Len(origin[w]) = Len(scraped_data[w])
            /\ \A i \in 1..Len(origin[w]) : \A j \in 1..Len(origin[w]) :
                    i < j => Precedes(origin[w][i], origin[w][j]))
    /\ [][\A w \in Worker :
            EndedEmpty(w) /\ ~Restarts(w) =>
                /\ requested'[w] = requested[w]
                /\ page'[w] = page[w]
                /\ scraped_data'[w] = scraped_data[w]
                /\ pc'[w] \notin {"while", "fetch", "sleep"}]_vars
    /\ [][\A w \in Worker :
            ~Restarts(w) =>
                \/ scraped_data'[w] = scraped_data[w] /\ origin'[w] = origin[w]
                \/ /\ scraped_data'[w] = Append(scraped_data[w], products[w][idx[w]])
                   /\ origin'[w] = Append(origin[w], <<page[w], idx[w]>>)]_vars

\* page 1: two new products; page 2: one unchanged, one new; page 3: empty.
\* Three records, page 4 allowed by max_pages and not requested.
C7_Witness ==
    \E w \in workers :
        /\ settings[w].max_pages = {4}
        /\ pc[w] = "returned"
        /\ page[w] = 3
        /\ products[w] = <<>>
        /\ requested[w] = {1, 2, 3}
        /\ origin[w] = << <<1, 1>>, <<1, 2>>, <<2, 2>> >>
        /\ Len(scraped_data[w]) = 3
        /\ response[w] = SuccessBody(scraped_data[w])

\* the scrape_page call of this step raised
FetchRaised(w) ==
    /\ attempts'[w] # attempts[w]
    /\ attempts'[w] # <<>>
    /\ ~Last(attempts'[w]).ok

\* C8: a fetch that raises is not retried: the exception leaves the retry
\* loop at once, no page is requested any more and the crawl is aborted;
\* only a fetch that returned an empty list consumes a retry.
C8_RaisedFetchNotRetried ==
    /\ [][\A w \in Worker :
            FetchRaised(w) =>
                /\ pc'[w] = "failed"
                /\ retries'[w] = retries[w]
                /\ response'[w].status = 500]_vars
    /\ [][\A w \in Worker :
            pc[w] = "failed" /\ ~Restarts(w) =>
                /\ pc'[w] = "failed"
                /\ attempts'[w] = attempts[w]
                /\ requested'[w] = requested[w]
                /\ scraped_data'[w] = scraped_data[w]]_vars
    /\ [][\A w \in Worker :
            retries'[w] < retries[w] /\ ~Restarts(w) =>
                /\ Len(attempts'[w]) = Len(attempts[w]) + 1
                /\ Last(attempts'[w]).ok
                /\ Last(attempts'[w]).result = <<>>]_vars

\* page 1 accepted, page 2: an empty fetch, then a fetch that raises
C8_Witness ==
    \E w \in workers :
        /\ pc[w] = "failed"
        /\ page[w] = 2
        /\ scraped_data[w] # <<>>
        /\ Len(attempts[w]) = 2
        /\ attempts[w][1].ok
        /\ ~attempts[w][2].ok
        /\ retries[w] = 2

\* C9 as stated: the caller of an aborted crawl that had accepted records
\* receives an error together with the number of records accumulated.
C9_AbortReportsCount ==
    \A w \in Worker :
        pc[w] = "failed" /\ scraped_data[w] # <<>> =>
            /\ response[w].status # 200
            /\ "products_scraped" \in DOMAIN response[w]
            /\ response[w].products_scraped = Len(scraped_data[w])

\* C10 as stated: on Stopped, save is called once with the final crawl result
\* and products_scraped is the length of that sequence.
C10_SaveReceivesResult ==
    \A w \in Worker :
        pc[w] = "returned" =>
            /\ Len(saved[w]) = 1
            /\ saved[w][1].data.kind = "list"
            /\ saved[w][1].data.items = scraped_data[w]
            /\ response[w].products_scraped = Len(scraped_data[w])

\* the smallest of three numbers
Min3(a, b, c) == CHOOSE m \in {a, b, c} : m <= a /\ m <= b /\ m <= c

C12_LastWriterWins ==
    /\ [][\A w \in Worker : Checks(w) => cache' = cache]_vars
    /\ [][\A w \in Worker :
            pc[w] = "set" /\ Processed(w) =>
                LET product == products[w][idx[w]]
                IN  /\ CacheKey(product) \in DOMAIN cache'
                    /\ cache'[CacheKey(product)] = FreshEntry(product)]_vars

\* both crawls accepted X at 10 before any entry expired, so both read the
\* entry before either wrote it; both sets have run
C12_Witness ==
    /\ now < CACHE_EXPIRY
    /\ \A w \in {1, 2} :
        /\ w \in workers
        /\ pc[w] = "for"
        /\ idx[w] = 2
        /\ products[w] = <<ScrapedProduct("X", "10")>>
        /\ scraped_data[w] = <<ScrapedProduct("X", "10")>>
    /\ cache[<<"product:", "X">>].value = "10"

\* a scrape_page call of worker w is made in this step
Fetches(w) == Len(attempts'[w]) = Len(attempts[w]) + 1

\* C13: within one crawl the pages are requested in ascending order from 1
\* with none skipped, and page N+1 is first fetched only after the retry loop
\* of page N has ended and every record of page N went through the cache
\* check.
C13_PagesInOrder ==
    /\ [](\A w \in Worker :
            requested[w] = 1..page[w] \/ requested[w] = 1..(page[w] - 1))
    /\ [][\A w \in Worker :
            Restarts(w) => page'[w] = 1 /\ requested'[w] = {}]_vars
    /\ [][\A w \in Worker :
            Fetches(w) =>
                /\ pc[w] = "fetch"
                /\ Last(attempts'[w]).url = PageUrl(page[w])
                /\ requested'[w] = requested[w] \cup {page[w]}
                /\ page'[w] = page[w]]_vars
    /\ [][\A w \in Worker :
            page'[w] # page[w] /\ ~Restarts(w) =>
                /\ page'[w] = page[w] + 1
                /\ pc[w] = "for"
                /\ attempts[w] # <<>>
                /\ Last(attempts[w]).result = products[w]
                /\ idx[w] = Len(products[w]) + 1]_vars
    /\ [][\A w \in Worker :
            idx'[w] # idx[w] /\ ~Restarts(w) =>
                \/ Fetches(w) /\ idx'[w] = 1
                \/ Processed(w)]_vars

\* pages 1 and 2 are done, three records were accepted, page 3 is next
C13_Witness ==
    \E w \in workers :
        /\ pc[w] = "fetch"
        /\ page[w] = 3
        /\ requested[w] = {1, 2}
        /\ attempts[w] = <<>>
        /\ Len(scraped_data[w]) = 3

\* worker w checks the first record of its crawl, and the cache holds an
\* entry, written by an earlier crawl, with the record's name and price
MeetsEarlierEntry(w) ==
    /\ Checks(w)
    /\ page[w] = 1
    /\ idx[w] = 1
    /\ scraped_data[w] = <<>>
    /\ CacheKey(products[w][1]) \in DOMAIN cache
    /\ cache[CacheKey(products[w][1])].value = products[w][1].price

\* C14: cache entries outlive the crawl that wrote them (a new crawl leaves
\* the cache as it is, no entry is ever deleted) and end only by TTL: a later
\* crawl rejects a record whose name and price match a live entry and accepts
\* it once the entry has expired.
C14_EntriesOutliveCrawl ==
    /\ [][\A w \in Worker : Restarts(w) => cache' = cache]_vars
    /\ [][\A k \in DOMAIN cache :
            /\ k \in DOMAIN cache'
            /\ cache'[k] # cache[k] =>
                    \E w \in Worker :
                        /\ pc[w] = "set"
                        /\ Processed(w)
                        /\ CacheKey(products[w][idx[w]]) = k]_vars
    /\ [][\A w \in Worker :
            MeetsEarlierEntry(w) =>
                IF now < cache[CacheKey(products[w][1])].expires
                THEN scraped_data'[w] = <<>>
                ELSE scraped_data'[w] = <<products[w][1]>>]_vars

\* the second crawl accepts X at 10 again: the entry of the first crawl,
\* with the same price, has expired
C14_Witness ==
    \E w \in workers :
        /\ pending = <<>>
        /\ pc[w] = "set"
        /\ page[w] = 1
        /\ idx[w] = 1
        /\ scraped_data[w] = <<ScrapedProduct("X", "10")>>
        /\ <<"product:", "X">> \in DOMAIN cache
        /\ cache[<<"product:", "X">>].value = "10"
        /\ cache[<<"product:", "X">>].expires <= now

\* the scrape_page call of this step was answered with an HTTP error status
FetchesErrorStatus(w) == Fetches(w) /\ Last(attempts'[w]).status >= 400

\* C15 as stated: a fetch answered with an HTTP error status propagates as an
\* error at once: it consumes no retry and aborts the crawl.
C15_ErrorStatusAborts ==
    [][\A w \in Worker :
        FetchesErrorStatus(w) =>
            /\ pc'[w] = "failed"
            /\ retries'[w] = retries[w]
            /\ response'[w].status = 500]_vars

\* C16 as stated: with max_pages unset or above 10 and every page returning
\* data, the crawl requests pages 1 through 10 before it stops.
C16_TenPagesRequested ==
    \A w \in Worker :
        (/\ Finished(w)
         /\ \A m \in settings[w].max_pages : m > 10
         /\ requested[w] # {}
         /\ products[w] # <<>>) =>
            requested[w] = 1..10

\* C17 as stated: for every integer max_pages, zero and negatives included,
\* no page above max_pages is requested.
C17_NoPageAboveMaxPages ==
    \A w \in Worker :
        \A m \in settings[w].max_pages :
            \A p \in requested[w] : p <= m

\* the crawl of worker w has come to a halt by an exception
Aborted(w) == pc[w] = "failed"

\* C18: a started crawl in which nothing raises reaches Stopped.  The page
\* counter stays within 1..10 and only increases during a crawl, a page has
\* at most 3 fetches, all of them while the counter is at that page, and the
\* fetches of a page are forgotten only once the counter has moved on.
C18_CrawlTerminates ==
    /\ [](\A w \in Worker :
            /\ page[w] \in 1..10
            /\ Len(attempts[w]) <= 3
            /\ \A j \in 1..Len(attempts[w]) : attempts[w][j].url[3] <= page[w])
    /\ [][\A w \in Worker :
            ~Restarts(w) =>
                /\ page'[w] >= page[w]
                /\ Fetches(w) => Last(attempts'[w]).url[3] = page[w]
                /\ Len(attempts'[w]) < Len(attempts[w]) =>
                      \A j \in 1..Len(attempts[w]) :
                          attempts[w][j].url[3] < page[w]]_vars
    /\ \A w \in Worker :
            (pc[w] = "while") ~> (Finished(w) \/ Aborted(w))

\* an unlimited crawl has stopped after 8 pages with data and a ninth page
\* that was empty three times
C18_Witness ==
    \E w \in workers :
        /\ pc[w] = "returned"
        /\ settings[w].max_pages = {}
        /\ requested[w] = 1..9
        /\ Len(attempts[w]) = 3
        /\ products[w] = <<>>
        /\ response[w].status = 200

\* C19: right after the set of an accepted record its entry holds the
\* record's price and expires CACHE_EXPIRY after the present; right after any
\* record has been processed, accepted or rejected, a get of its key returns
\* its price.
C19_LiveValueIsPrice ==
    [][\A w \in Worker :
        Processed(w) =>
            LET product == products[w][idx[w]]
                key == CacheKey(product)
            IN  /\ pc[w] = "set" =>
                    /\ key \in DOMAIN cache'
                    /\ cache'[key].value = product.price
                    /\ cache'[key].expires = now' + CACHE_EXPIRY
                /\ CacheGet(cache', key, now') = Some(product.price)]_vars

\* X was accepted at 10 on an earlier page and has just been accepted again
\* at 12: its entry holds 12 and a full time to live
C19_Witness ==
    \E w \in workers :
        /\ pc[w] = "for"
        /\ idx[w] = 2
        /\ page[w] > 1
        /\ products[w] # <<>>
        /\ products[w][1] = ScrapedProduct("X", "12")
        /\ origin[w] # <<>>
        /\ Last(origin[w]) = <<page[w], 1>>
        /\ ScrapedProduct("X", "10") \in Range(scraped_data[w])
        /\ cache[<<"product:", "X">>] = [value |-> "12", expires |-> now + CACHE_EXPIRY]

\* C20 as stated: a page that needed k fetches incurs k - 1 waits: no wait
\* follows the last attempt of a page, empty or not.
C20_WaitsOnlyBetweenAttempts ==
    \A w \in Worker :
        (LoopEnded(w) /\ attempts[w] # <<>>) =>
            sleeps[w] = Len(attempts[w]) - 1

====
